---- MODULE Spec2Model ----
(***************************************************************************)
(* Model of the PDF ingestion service: process_pdf writes the pages of an  *)
(* uploaded document into <base>/<stem>/<section>/page_<n>.jpg according   *)
(* to the document's outline (helpers.py), and the lookup endpoints read   *)
(* the store back by directory traversal (main.py).                        *)
(*                                                                         *)
(* Strings are sequences of one-character strings, so that formatting,     *)
(* splitting, parsing and sanitizing are computed as the code computes     *)
(* them.  A path is a sequence of names.                                   *)
(***************************************************************************)
EXTENDS Integers, Sequences, FiniteSets, TLC

VARIABLES fs, tmp, calls, last, query, san, proc

vars == <<fs, tmp, calls, last, query, san, proc>>

(***************************************************************************)
(* Bounds of the exploration.                                              *)
(***************************************************************************)
MaxToc == 2
MaxPages == 2
MaxCalls == 2
MaxLen == 3

(***************************************************************************)
(* Characters and strings.                                                 *)
(***************************************************************************)
Letters ==
  {"a","b","c","d","e","f","g","h","i","j","k","l","m","n","o","p","q","r",
   "s","t","u","v","w","x","y","z","A","B"}

DigitChars == <<"0","1","2","3","4","5","6","7","8","9">>

DigitSet == {DigitChars[k] : k \in 1..10}

\* str.isalnum() of one character
IsAlnum(c) == c \in Letters \cup DigitSet

\* the characters str.strip() removes; of these only the space survives the filter
IsSpace(c) == c \in {" ", "\t"}

RECURSIVE NatToStr(_)
NatToStr(n) ==
  IF n < 10 THEN <<DigitChars[n + 1]>>
  ELSE NatToStr(n \div 10) \o <<DigitChars[(n % 10) + 1]>>

\* f"{n}" of an integer
IntToStr(n) == IF n < 0 THEN <<"-">> \o NatToStr(0 - n) ELSE NatToStr(n)

DigitVal(c) == CHOOSE k \in 0..9 : DigitChars[k + 1] = c

RECURSIVE NatVal(_)
NatVal(s) ==
  IF Len(s) = 1 THEN DigitVal(s[1])
  ELSE 10 * NatVal(SubSeq(s, 1, Len(s) - 1)) + DigitVal(s[Len(s)])

AllDigits(s) == Len(s) >= 1 /\ \A k \in 1..Len(s) : s[k] \in DigitSet

\* int(s): ok is FALSE where Python raises ValueError
StrToInt(s) ==
  IF AllDigits(s) THEN [ok |-> TRUE, val |-> NatVal(s)]
  ELSE IF Len(s) >= 2 /\ s[1] \in {"-", "+"} /\ AllDigits(Tail(s))
       THEN [ok |-> TRUE,
             val |-> IF s[1] = "-" THEN 0 - NatVal(Tail(s)) ELSE NatVal(Tail(s))]
       ELSE [ok |-> FALSE, val |-> 0]

\* s.split(c)
RECURSIVE Split(_, _)
Split(s, c) ==
  IF \A k \in 1..Len(s) : s[k] # c THEN <<s>>
  ELSE LET k == CHOOSE j \in 1..Len(s) :
                  s[j] = c /\ \A h \in 1..(j - 1) : s[h] # c
       IN <<SubSeq(s, 1, k - 1)>> \o Split(SubSeq(s, k + 1, Len(s)), c)

EndsWith(s, suf) ==
  Len(s) >= Len(suf) /\ SubSeq(s, Len(s) - Len(suf) + 1, Len(s)) = suf

\* s.strip()
RECURSIVE LStrip(_)
LStrip(s) == IF s # <<>> /\ IsSpace(s[1]) THEN LStrip(Tail(s)) ELSE s

RECURSIVE RStrip(_)
RStrip(s) ==
  IF s # <<>> /\ IsSpace(s[Len(s)]) THEN RStrip(SubSeq(s, 1, Len(s) - 1)) ELSE s

Strip(s) == RStrip(LStrip(s))

\* "".join(c for c in s if c.isalnum() or c in " _-")
KeepChar(c) == IsAlnum(c) \/ c \in {" ", "_", "-"}

FilterTitle(s) == SelectSeq(s, KeepChar)

\* a plausible slip: trim first, filter afterwards
StripThenFilter(title) == FilterTitle(Strip(title))

\* helpers.py line 41, the writer's rule
title_clean(title) == Strip(FilterTitle(title))

\* main.py lines 82-84, the lookup's rule
toc_section_clean(toc_section) == Strip(FilterTitle(toc_section))

(***************************************************************************)
(* The store: a set of directories and a map from (directory, file name)    *)
(* to the image the file holds.                                            *)
(***************************************************************************)
PDF_BASE_DIR == <<"i","m","a","g","e","s">>

\* os.path.join(dir, name); joining the empty name denotes the directory itself
Join(dir, name) == IF name = <<>> THEN dir ELSE Append(dir, name)

Prefixes(dir) == {SubSeq(dir, 1, k) : k \in 1..Len(dir)}

\* a plausible slip: exist_ok left out, an existing directory raises
MakeDirsStrict(fsys, dir) ==
  IF dir \in fsys.dirs THEN [ok |-> FALSE, fs |-> fsys]
  ELSE [ok |-> TRUE, fs |-> [fsys EXCEPT !.dirs = @ \cup Prefixes(dir)]]

\* os.makedirs(dir, exist_ok=True)
MakeDirs(fsys, dir) ==
  [ok |-> TRUE, fs |-> [fsys EXCEPT !.dirs = @ \cup Prefixes(dir)]]

\* image.save(path): creates the file or replaces what it held
SaveFile(fsys, dir, name, img) ==
  [fsys EXCEPT !.files =
     [k \in (DOMAIN @) \cup {<<dir, name>>} |->
        IF k = <<dir, name>> THEN img ELSE @[k]]]

\* os.path.splitext(filename)[0]
SplitExtStem(filename) ==
  LET dots == {k \in 1..Len(filename) : filename[k] = "."}
      k == CHOOSE j \in dots : \A h \in dots : h <= j
  IN IF dots # {} /\ (\E h \in 1..(k - 1) : filename[h] # ".")
     THEN SubSeq(filename, 1, k - 1)
     ELSE filename

\* helpers.py create_pdf_directory
create_pdf_directory(fsys, pdf_filename) ==
  LET pdf_dir == Join(<<PDF_BASE_DIR>>, SplitExtStem(pdf_filename))
      made == MakeDirs(fsys, pdf_dir)
  IN [ok |-> made.ok, fs |-> made.fs, dir |-> pdf_dir]

(***************************************************************************)
(* Documents.  A document is its outline (a sequence of <<level, title,    *)
(* page>>, as get_toc returns it) and its page count; the rasterizer       *)
(* yields one image per page, Image(d, k) for page k.                      *)
(***************************************************************************)
Image(d, k) == [doc |-> d, page |-> k]

\* convert_from_path: the images of pages 1..P, at 0-based indices 0..P-1
convert_from_path(d) == [k \in 1..d.pages |-> Image(d, k)]

general == <<"g","e","n","e","r","a","l">>

\* a plausible slip: the default entry starts at the wrong page
DefaultTocOffByOne == <<<<1, general, 2>>>>

\* helpers.py line 33
DefaultToc == <<<<1, general, 1>>>>

\* helpers.py lines 31-33
get_toc(d) == IF d.toc = <<>> THEN DefaultToc ELSE d.toc

\* f"page_{page_num + 1}.jpg"
PageFileName(n) == <<"p","a","g","e","_">> \o IntToStr(n) \o <<".","j","p","g">>

\* a plausible slip: the next section's first page is taken as this one's last
NextPageInclusive(toc, i, P) == IF i < Len(toc) THEN toc[i + 1][3] ELSE P

\* helpers.py lines 46-49 (i is 1-based here): the exclusive end of range()
NextPage(toc, i, P) == IF i < Len(toc) THEN toc[i + 1][3] - 1 ELSE P

\* a plausible slip: the guard is dropped
ValidPageUnchecked(page_num, P) == TRUE

\* helpers.py line 53
ValidPage(page_num, P) == page_num < P

\* images[page_num]: Python list indexing, negative indices count from the end;
\* ok is FALSE where it raises IndexError
ListIndex(images, page_num) ==
  LET P == Len(images) IN
  IF page_num >= 0 /\ page_num < P THEN [ok |-> TRUE, val |-> images[page_num + 1]]
  ELSE IF page_num < 0 /\ page_num >= 0 - P
       THEN [ok |-> TRUE, val |-> images[P + page_num + 1]]
       ELSE [ok |-> FALSE, val |-> <<>>]

\* helpers.py lines 53-57: one iteration of the page loop of entry i
SaveOnePage(st, section_dir, i, page_num, images) ==
  IF ~ValidPage(page_num, Len(images)) THEN st
  ELSE LET got == ListIndex(images, page_num)
           name == PageFileName(page_num + 1)
       IN IF ~got.ok
          THEN [st EXCEPT !.ok = FALSE, !.failKind = "IndexError",
                          !.failEntry = i, !.failIdx = page_num]
          ELSE [st EXCEPT
                  !.fs = SaveFile(st.fs, section_dir, name, got.val),
                  !.paths = Append(@, [entry |-> i, dir |-> section_dir,
                                       name |-> name, num |-> page_num + 1,
                                       page |-> got.val.page])]

\* helpers.py line 52: for page_num in range(from, next_page)
RECURSIVE SavePages(_, _, _, _, _, _)
SavePages(st, section_dir, i, page_num, next_page, images) ==
  IF page_num >= next_page \/ ~st.ok THEN st
  ELSE SavePages(SaveOnePage(st, section_dir, i, page_num, images),
                 section_dir, i, page_num + 1, next_page, images)

\* helpers.py lines 40-43: the section directory of entry i
SectionDir(toc, i, pdf_dir) == Join(pdf_dir, title_clean(toc[i][2]))

\* helpers.py lines 39-57: the body of the loop for entry i
ProcessEntry(st, toc, i, images, pdf_dir) ==
  LET section_dir == SectionDir(toc, i, pdf_dir)
      made == MakeDirs(st.fs, section_dir)
  IN IF ~made.ok
     THEN [st EXCEPT !.ok = FALSE, !.failKind = "FileExistsError",
                     !.failEntry = i]
     ELSE SavePages([st EXCEPT !.fs = made.fs], section_dir, i,
                    toc[i][3] - 1, NextPage(toc, i, Len(images)), images)

RECURSIVE ProcessEntries(_, _, _, _, _)
ProcessEntries(st, toc, i, images, pdf_dir) ==
  IF i > Len(toc) \/ ~st.ok THEN st
  ELSE ProcessEntries(ProcessEntry(st, toc, i, images, pdf_dir),
                      toc, i + 1, images, pdf_dir)

\* helpers.py line 36: nothing written yet, nothing raised
StartState(fsys) ==
  [fs |-> fsys, paths |-> <<>>, ok |-> TRUE, failKind |-> "none",
   failEntry |-> 0, failIdx |-> 0]

\* helpers.py pdf_to_images_by_toc, reading document d
pdf_to_images_by_toc(fsys, d, pdf_dir) ==
  LET toc == get_toc(d)
      images == convert_from_path(d)
      st == ProcessEntries(StartState(fsys), toc, 1, images, pdf_dir)
  IN [fs |-> st.fs, paths |-> st.paths, ok |-> st.ok, failKind |-> st.failKind,
      failEntry |-> st.failEntry, failIdx |-> st.failIdx, toc |-> toc]

(***************************************************************************)
(* Inputs.                                                                 *)
(***************************************************************************)
Titles == {<<" ","B","/">>, <<"?">>}

StartPages == (0 - 1)..3

Entries == {<<1, t, n>> : t \in Titles, n \in StartPages}

Tocs == UNION {[1..k -> Entries] : k \in 0..MaxToc}

Docs == [toc : Tocs, pages : 1..MaxPages]

\* the uploads of the re-processing scenario: every document of at most one
\* outline entry and full length, and two documents of two sections
ReDocs ==
  {d \in Docs : Len(d.toc) <= 1 /\ d.pages = MaxPages}
  \cup {[toc |-> <<<<1, <<"A">>, 1>>, <<1, <<" ","B","/">>, 2>>>>, pages |-> 2],
        [toc |-> <<<<1, <<" ","B","/">>, 1>>, <<1, <<"A">>, 2>>>>, pages |-> 2]}

FileName == <<"d",".","p","d","f">>

PdfDirs == {<<"d">>}

ContentTypes == {"application/pdf", "text/plain"}

QueryTitles == Titles \cup {<<"B">>, general}

QueryPages == (0 - 1)..(MaxPages + 1)

(***************************************************************************)
(* The temporary upload file temp_<filename>.                              *)
(***************************************************************************)
TempPath(filename) == <<"t","e","m","p","_">> \o filename

Put(f, k, v) == [x \in (DOMAIN f) \cup {k} |-> IF x = k THEN v ELSE f[x]]

Drop(f, k) == [x \in (DOMAIN f) \ {k} |-> f[x]]

NoFile == [x \in {} |-> 0]

\* the record of the latest process_pdf call: its upload, its response, what
\* pdf_to_images_by_toc wrote and raised, and whether the call before it was
\* for the same upload
NoCall ==
  [status |-> 0, filename |-> <<>>, doc |-> [toc |-> <<>>, pages |-> 0],
   pdf_dir |-> <<>>, toc |-> <<>>, paths |-> <<>>, failKind |-> "none",
   failEntry |-> 0, failIdx |-> 0, rerun |-> FALSE]

NoQuery ==
  [op |-> "none", pdf_dir |-> <<>>, title |-> <<>>, page |-> 0, status |-> 0,
   clean |-> <<>>, images |-> <<>>, section |-> <<>>, uri |-> <<>>]

NoSan == [stage |-> "idle", title |-> <<>>, once |-> <<>>, twice |-> <<>>,
          lookup |-> <<>>]

NoProc == [p \in {} |-> 0]

SanChars == {"A", "1", " ", "_", "-", "/", "\t"}

SanTitles == UNION {[1..k -> SanChars] : k \in 0..MaxLen}

(***************************************************************************)
(* main.py process_pdf, run to completion.                                 *)
(***************************************************************************)
process_pdf(filename, ctype, d) ==
  IF ctype # "application/pdf"
  THEN /\ last' = [NoCall EXCEPT !.status = 400, !.filename = filename]
       /\ UNCHANGED <<fs, tmp>>
  ELSE LET pdf_path == TempPath(filename)
           written == Put(tmp, pdf_path, [ino |-> 1, full |-> TRUE, data |-> d])
           made == create_pdf_directory(fs, filename)
           res == pdf_to_images_by_toc(made.fs, written[pdf_path].data, made.dir)
       IN IF ~made.ok
          THEN /\ fs' = fs
               /\ tmp' = Drop(written, pdf_path)
               /\ last' = [NoCall EXCEPT !.status = 500, !.filename = filename,
                                         !.doc = d, !.failKind = "FileExistsError"]
          ELSE /\ fs' = res.fs
               /\ tmp' = Drop(written, pdf_path)
               /\ last' = [status |-> IF res.ok THEN 200 ELSE 500,
                           filename |-> filename, doc |-> d, pdf_dir |-> made.dir,
                           toc |-> IF res.ok THEN res.toc ELSE <<>>,
                           paths |-> res.paths, failKind |-> res.failKind,
                           failEntry |-> res.failEntry, failIdx |-> res.failIdx,
                           rerun |-> /\ last.status \in {200, 500}
                                     /\ last.filename = filename
                                     /\ last.doc = d]

\* one upload into the empty store
Upload ==
  /\ calls = 0
  /\ \E d \in Docs, ctype \in ContentTypes : process_pdf(FileName, ctype, d)
  /\ calls' = calls + 1
  /\ query' = NoQuery
  /\ UNCHANGED <<san, proc>>

\* uploads of the same file name, one after the other
ReUpload ==
  /\ calls < MaxCalls
  /\ \E d \in ReDocs : process_pdf(FileName, "application/pdf", d)
  /\ calls' = calls + 1
  /\ query' = NoQuery
  /\ UNCHANGED <<san, proc>>

(***************************************************************************)
(* Lookups.  The directory listing order is the file system's choice.  A    *)
(* lookup leaves the store as it is; query holds the response of the one   *)
(* lookup observed in the current state of the store.                      *)
(***************************************************************************)
\* os.listdir(dir): the names of the files and of the subdirectories
ListDir(fsys, dir) ==
  {k[2] : k \in {x \in DOMAIN fsys.files : x[1] = dir}}
  \cup {p[Len(p)] : p \in {q \in fsys.dirs :
                             Len(q) = Len(dir) + 1 /\ SubSeq(q, 1, Len(dir)) = dir}}

ImageExts == {<<".","j","p","g">>, <<".","j","p","e","g">>, <<".","p","n","g">>}

\* f.endswith((".jpg", ".jpeg", ".png"))
IsImageName(f) == \E e \in ImageExts : EndsWith(f, e)

\* every order a set can be listed in
RECURSIVE Orders(_)
Orders(S) ==
  IF S = {} THEN {<<>>}
  ELSE UNION {{<<x>> \o o : o \in Orders(S \ {x})} : x \in S}

\* int(x.split("_")[1].split(".")[0]); ok is FALSE where it raises
SortKey(x) ==
  LET parts == Split(x, "_")
  IN IF Len(parts) < 2 THEN [ok |-> FALSE, val |-> 0]
     ELSE StrToInt(Split(parts[2], ".")[1])

\* insertion of x into a list sorted by key, after the equal keys (stable)
RECURSIVE InsertByKey(_, _)
InsertByKey(sorted, x) ==
  IF sorted = <<>> THEN <<x>>
  ELSE IF x.key < sorted[1].key THEN <<x>> \o sorted
       ELSE <<sorted[1]>> \o InsertByKey(Tail(sorted), x)

RECURSIVE SortFrom(_, _)
SortFrom(sorted, rest) ==
  IF rest = <<>> THEN sorted
  ELSE SortFrom(InsertByKey(sorted, rest[1]), Tail(rest))

\* a plausible slip: the listing is returned as the file system gave it
Unsorted(image_files) == image_files

\* main.py line 100: image_files.sort(key=...), the key computed once per name
SortByPage(image_files) ==
  LET keyed == [k \in 1..Len(image_files) |->
                  [key |-> SortKey(image_files[k]).val, name |-> image_files[k]]]
      sorted == SortFrom(<<>>, keyed)
  IN [k \in 1..Len(sorted) |-> sorted[k].name]

Slash == <<"/">>

ImagesPrefix == Slash \o <<"i","m","a","g","e","s">> \o Slash

\* main.py lines 113-116
SectionUri(pdf_dir, clean, image_file) ==
  ImagesPrefix \o pdf_dir \o Slash \o clean \o Slash \o image_file

\* main.py lines 95-97: the qualifying names of a directory; the comprehension
\* keeps them in the order os.listdir gave, which is any order
ImageFilesIn(fsys, dir) == {f \in ListDir(fsys, dir) : IsImageName(f)}

\* main.py get_toc_images, image_files in the order the file system listed them
get_toc_images(pdf_dir, toc_section, image_files) ==
  LET pdf_full_path == Join(<<PDF_BASE_DIR>>, pdf_dir)
      clean == toc_section_clean(toc_section)
      section_dir == Join(pdf_full_path, clean)
      keysOk == \A k \in 1..Len(image_files) : SortKey(image_files[k]).ok
      sorted == SortByPage(image_files)
      q == [NoQuery EXCEPT !.op = "toc", !.pdf_dir = pdf_dir, !.title = toc_section]
  IN IF pdf_full_path \notin fs.dirs THEN [q EXCEPT !.status = 404]
     ELSE IF section_dir \notin fs.dirs THEN [q EXCEPT !.status = 404, !.clean = clean]
     ELSE IF ~keysOk THEN [q EXCEPT !.status = 500, !.clean = clean]
     ELSE IF image_files = <<>> THEN [q EXCEPT !.status = 404, !.clean = clean]
     ELSE [q EXCEPT !.status = 200, !.clean = clean,
                    !.images = [k \in 1..Len(sorted) |->
                                  SectionUri(pdf_dir, clean, sorted[k])]]

GetTocImages ==
  /\ query = NoQuery
  /\ \E pdf_dir \in PdfDirs, toc_section \in QueryTitles :
       LET section_dir == Join(Join(<<PDF_BASE_DIR>>, pdf_dir),
                               toc_section_clean(toc_section))
       IN query' \in {get_toc_images(pdf_dir, toc_section, image_files) :
                         image_files \in Orders(ImageFilesIn(fs, section_dir))}
  /\ UNCHANGED <<fs, tmp, calls, last, san, proc>>

\* the directories under top that hold a file of that name
Holding(fsys, top, name) ==
  {dir \in fsys.dirs : /\ Len(dir) >= Len(top)
                       /\ SubSeq(dir, 1, Len(top)) = top
                       /\ <<dir, name>> \in DOMAIN fsys.files}

\* os.walk(top), top-down: the directory of the first file of that name; a
\* directory is visited before its subdirectories, siblings in listing order
FirstMatches(fsys, top, name) ==
  {dir \in Holding(fsys, top, name) :
     \A other \in Holding(fsys, top, name) :
        ~(Len(other) < Len(dir) /\ SubSeq(dir, 1, Len(other)) = other)}

\* os.path.relpath(root, top) for a directory at or under top
RECURSIVE JoinNames(_)
JoinNames(names) ==
  IF names = <<>> THEN <<>>
  ELSE IF Len(names) = 1 THEN names[1]
       ELSE names[1] \o Slash \o JoinNames(Tail(names))

RelPath(root, top) ==
  IF root = top THEN <<".">> ELSE JoinNames(SubSeq(root, Len(top) + 1, Len(root)))

\* main.py lines 162-165: an exception raised in the try block, the 404 of
\* lines 157-160 included, is caught and raised again as a 500
RaisedInTry(status) == 500

\* main.py get_page_image, root being the directory os.walk found the file in
get_page_image(pdf_dir, page_number, found, root) ==
  LET pdf_full_path == Join(<<PDF_BASE_DIR>>, pdf_dir)
      file == PageFileName(page_number)
      rel_path == RelPath(root, pdf_full_path)
      q == [NoQuery EXCEPT !.op = "page", !.pdf_dir = pdf_dir, !.page = page_number]
  IN IF pdf_full_path \notin fs.dirs THEN [q EXCEPT !.status = 404]
     ELSE IF ~found THEN [q EXCEPT !.status = RaisedInTry(404)]
     ELSE [q EXCEPT !.status = 200,
                    !.section = root[Len(root)],
                    !.uri = IF rel_path = <<".">>
                            THEN ImagesPrefix \o pdf_dir \o Slash \o file
                            ELSE ImagesPrefix \o pdf_dir \o Slash \o rel_path
                                   \o Slash \o file]

GetPageImage ==
  /\ query = NoQuery
  /\ \E pdf_dir \in PdfDirs, page_number \in QueryPages :
       LET top == Join(<<PDF_BASE_DIR>>, pdf_dir)
           firsts == FirstMatches(fs, top, PageFileName(page_number))
       IN IF firsts = {}
          THEN query' = get_page_image(pdf_dir, page_number, FALSE, top)
          ELSE query' \in {get_page_image(pdf_dir, page_number, TRUE, root) :
                             root \in firsts}
  /\ UNCHANGED <<fs, tmp, calls, last, san, proc>>

(***************************************************************************)
(* The store after start-up: helpers.py line 9 creates the base directory. *)
(***************************************************************************)
Init ==
  /\ fs = [dirs |-> {<<PDF_BASE_DIR>>}, files |-> NoFile]
  /\ tmp = NoFile
  /\ calls = 0
  /\ last = NoCall
  /\ query = NoQuery
  /\ san = NoSan
  /\ proc = NoProc

Next == Upload \/ GetTocImages \/ GetPageImage

Spec == Init /\ [][Next]_vars

NextRe == ReUpload \/ GetTocImages \/ GetPageImage

SpecRe == Init /\ [][NextRe]_vars

(***************************************************************************)
(* The sanitization rule on its own: a title is cleaned by the writer,     *)
(* the result is cleaned again, and the lookup cleans the raw title and    *)
(* the writer's result.                                                    *)
(***************************************************************************)
InitSan ==
  /\ fs = [dirs |-> {<<PDF_BASE_DIR>>}, files |-> NoFile]
  /\ tmp = NoFile
  /\ calls = 0
  /\ last = NoCall
  /\ query = NoQuery
  /\ san \in {[NoSan EXCEPT !.stage = "given", !.title = t] : t \in SanTitles}
  /\ proc = NoProc

CleanTitle ==
  /\ san.stage = "given"
  /\ san' = [san EXCEPT !.stage = "once", !.once = title_clean(san.title)]
  /\ UNCHANGED <<fs, tmp, calls, last, query, proc>>

CleanAgain ==
  /\ san.stage = "once"
  /\ san' = [san EXCEPT !.stage = "twice", !.twice = title_clean(san.once)]
  /\ UNCHANGED <<fs, tmp, calls, last, query, proc>>

CleanLookup ==
  /\ san.stage = "twice"
  /\ san' = [san EXCEPT !.stage = "done",
                        !.lookup = <<toc_section_clean(san.title),
                                     toc_section_clean(san.once)>>]
  /\ UNCHANGED <<fs, tmp, calls, last, query, proc>>

NextSan == CleanTitle \/ CleanAgain \/ CleanLookup

SpecSan == InitSan /\ [][NextSan]_vars

(***************************************************************************)
(* Two process_pdf calls for uploads of the same file name, step by step.  *)
(* Both use the temporary file temp_<filename>.  open(.., "wb") truncates  *)
(* the file the path names or creates a new one; a write goes to the file  *)
(* the handle was opened on, which the path may no longer name after an    *)
(* os.remove.  The uploads have the same length, so that of two writes to  *)
(* one file the later one stands.                                          *)
(***************************************************************************)
Procs == {1, 2}

DocA == [toc |-> <<<<1, <<"A">>, 1>>>>, pages |-> 2]

DocB == [toc |-> <<<<1, <<" ","B","/">>, 1>>, <<1, <<"A">>, 2>>>>, pages |-> 2]

ConcDocs == {DocA, DocB}

NoDoc == [toc |-> <<>>, pages |-> 0]

StartProc(d) ==
  [pc |-> "open", doc |-> d, handle |-> 0, toc |-> <<>>, read |-> NoDoc,
   pdf_dir |-> <<>>, i |-> 0, page_num |-> 0, next_page |-> 0, paths |-> <<>>,
   status |-> 0]

InitConc ==
  /\ fs = [dirs |-> {<<PDF_BASE_DIR>>}, files |-> NoFile]
  /\ tmp = NoFile
  /\ calls = 0
  /\ last = NoCall
  /\ query = NoQuery
  /\ san = NoSan
  /\ proc \in {[p \in Procs |-> StartProc(IF p = 1 THEN a ELSE b)] :
                 a \in ConcDocs, b \in ConcDocs}

Others == <<calls, last, query, san>>

\* the file numbers in use: those a path names and those a writer holds open
UsedInos ==
  {tmp[k].ino : k \in DOMAIN tmp}
  \cup {proc[p].handle : p \in {q \in Procs : proc[q].pc = "write"}}

FreshIno == CHOOSE k \in 1..3 : k \notin UsedInos /\ \A h \in 1..(k - 1) : h \in UsedInos

\* a readable document at the path, as fitz.open and convert_from_path need
Readable(pdf_path) == pdf_path \in DOMAIN tmp /\ tmp[pdf_path].full

\* main.py line 55: open(pdf_path, "wb")
OpenTemp(p) ==
  /\ proc[p].pc = "open"
  /\ LET pdf_path == TempPath(FileName)
     IN IF pdf_path \in DOMAIN tmp
        THEN /\ tmp' = [tmp EXCEPT ![pdf_path].full = FALSE,
                                   ![pdf_path].data = NoDoc]
             /\ proc' = [proc EXCEPT ![p].pc = "write",
                                     ![p].handle = tmp[pdf_path].ino]
        ELSE /\ tmp' = Put(tmp, pdf_path,
                            [ino |-> FreshIno, full |-> FALSE, data |-> NoDoc])
             /\ proc' = [proc EXCEPT ![p].pc = "write", ![p].handle = FreshIno]
  /\ UNCHANGED <<fs, Others>>

\* main.py line 56: f.write(await file.read()), and the file is closed
WriteTemp(p) ==
  /\ proc[p].pc = "write"
  /\ LET pdf_path == TempPath(FileName)
     IN IF pdf_path \in DOMAIN tmp /\ tmp[pdf_path].ino = proc[p].handle
        THEN tmp' = [tmp EXCEPT ![pdf_path].full = TRUE,
                                ![pdf_path].data = proc[p].doc]
        ELSE tmp' = tmp
  /\ proc' = [proc EXCEPT ![p].pc = "mkdir", ![p].handle = 0]
  /\ UNCHANGED <<fs, Others>>

\* main.py line 58
MakeRoot(p) ==
  /\ proc[p].pc = "mkdir"
  /\ LET made == create_pdf_directory(fs, FileName)
     IN /\ fs' = made.fs
        /\ proc' = [proc EXCEPT ![p].pc = IF made.ok THEN "toc" ELSE "except",
                                ![p].pdf_dir = made.dir]
  /\ UNCHANGED <<tmp, Others>>

\* helpers.py lines 31-33: the outline is read from the temporary file
ReadToc(p) ==
  /\ proc[p].pc = "toc"
  /\ LET pdf_path == TempPath(FileName)
     IN IF Readable(pdf_path)
        THEN proc' = [proc EXCEPT ![p].pc = "convert",
                                  ![p].toc = get_toc(tmp[pdf_path].data)]
        ELSE proc' = [proc EXCEPT ![p].pc = "except"]
  /\ UNCHANGED <<fs, tmp, Others>>

\* helpers.py line 35: the pages are rendered from the temporary file
Convert(p) ==
  /\ proc[p].pc = "convert"
  /\ LET pdf_path == TempPath(FileName)
     IN IF Readable(pdf_path)
        THEN proc' = [proc EXCEPT ![p].pc = "entry", ![p].i = 1,
                                  ![p].read = tmp[pdf_path].data]
        ELSE proc' = [proc EXCEPT ![p].pc = "except"]
  /\ UNCHANGED <<fs, tmp, Others>>

\* helpers.py lines 39-49: the next entry, its directory and its range
EnterEntry(p) ==
  /\ proc[p].pc = "entry"
  /\ LET i == proc[p].i
         toc == proc[p].toc
     IN IF i > Len(toc)
        THEN /\ proc' = [proc EXCEPT ![p].pc = "remove"]
             /\ fs' = fs
        ELSE LET made == MakeDirs(fs, SectionDir(toc, i, proc[p].pdf_dir))
             IN /\ fs' = made.fs
                /\ proc' = [proc EXCEPT
                     ![p].pc = IF made.ok THEN "page" ELSE "except",
                     ![p].page_num = toc[i][3] - 1,
                     ![p].next_page = NextPage(toc, i, proc[p].read.pages)]
  /\ UNCHANGED <<tmp, Others>>

\* helpers.py lines 52-57: one iteration of the page loop
WritePage(p) ==
  /\ proc[p].pc = "page"
  /\ IF proc[p].page_num >= proc[p].next_page
     THEN /\ proc' = [proc EXCEPT ![p].pc = "entry", ![p].i = @ + 1]
          /\ fs' = fs
     ELSE LET st == SaveOnePage([StartState(fs) EXCEPT !.paths = proc[p].paths],
                                SectionDir(proc[p].toc, proc[p].i, proc[p].pdf_dir),
                                proc[p].i, proc[p].page_num,
                                convert_from_path(proc[p].read))
          IN /\ fs' = st.fs
             /\ proc' = [proc EXCEPT ![p].pc = IF st.ok THEN "page" ELSE "except",
                                     ![p].page_num = @ + 1,
                                     ![p].paths = st.paths]
  /\ UNCHANGED <<tmp, Others>>

\* main.py lines 62-64: os.remove raises when the path names no file
RemoveTemp(p) ==
  /\ proc[p].pc = "remove"
  /\ LET pdf_path == TempPath(FileName)
     IN IF pdf_path \in DOMAIN tmp
        THEN /\ tmp' = Drop(tmp, pdf_path)
             /\ proc' = [proc EXCEPT ![p].pc = "done", ![p].status = 200]
        ELSE /\ tmp' = tmp
             /\ proc' = [proc EXCEPT ![p].pc = "except"]
  /\ UNCHANGED <<fs, Others>>

\* main.py lines 65-68
HandleException(p) ==
  /\ proc[p].pc = "except"
  /\ LET pdf_path == TempPath(FileName)
     IN tmp' = IF pdf_path \in DOMAIN tmp THEN Drop(tmp, pdf_path) ELSE tmp
  /\ proc' = [proc EXCEPT ![p].pc = "done", ![p].status = 500]
  /\ UNCHANGED <<fs, Others>>

NextConc ==
  \E p \in Procs :
    \/ OpenTemp(p)
    \/ WriteTemp(p)
    \/ MakeRoot(p)
    \/ ReadToc(p)
    \/ Convert(p)
    \/ EnterEntry(p)
    \/ WritePage(p)
    \/ RemoveTemp(p)
    \/ HandleException(p)

SpecConc == InitConc /\ [][NextConc]_vars

(***************************************************************************)
(* What the properties speak of.                                           *)
(***************************************************************************)
\* the latest call got as far as pdf_to_images_by_toc
Processed == last.status \in {200, 500}

\* the outline the latest call worked from
Outline == IF last.doc.toc = <<>> THEN <<<<1, general, 1>>>> ELSE last.doc.toc

PageCount == last.doc.pages

StartPage(i) == Outline[i][3]

\* the page range of entry i as the specification computes it
FirstPage(i) == StartPage(i)

LastPage(i) == IF i < Len(Outline) THEN StartPage(i + 1) - 1 ELSE PageCount

StrictlyIncreasing ==
  \A i, j \in 1..Len(Outline) : i < j => StartPage(i) < StartPage(j)

\* the page numbers of the files written for entry i, and for all entries
WrittenFor(i) == {last.paths[k].num : k \in {h \in 1..Len(last.paths) :
                                               last.paths[h].entry = i}}

Written == {last.paths[k].num : k \in 1..Len(last.paths)}

WrittenOnce ==
  \A h, k \in 1..Len(last.paths) :
     last.paths[h].num = last.paths[k].num => h = k

Root == Join(<<PDF_BASE_DIR>>, <<"d">>)

\* the files physically present in a directory
FilesIn(dir) == {k[2] : k \in {x \in DOMAIN fs.files : x[1] = dir}}

(***************************************************************************)
(* C1, as claimed: for a strictly increasing outline of 1-based start      *)
(* pages, the pages written are exactly 1..P, each once.                   *)
(***************************************************************************)
C1_ContiguityAsClaimed ==
  (/\ Processed
   /\ StrictlyIncreasing
   /\ \A i \in 1..Len(Outline) : StartPage(i) >= 1)
  => /\ last.status = 200
     /\ Written = 1..PageCount
     /\ WrittenOnce

(***************************************************************************)
(* C1, amended: for a strictly increasing outline whose first entry starts *)
(* at page 1, the pages written are exactly 1..P, each once, and entry i   *)
(* receives the pages firstPage(i)..lastPage(i) that exist.                *)
(***************************************************************************)
C1_Contiguity ==
  (Processed /\ StrictlyIncreasing /\ StartPage(1) = 1)
  => /\ last.status = 200
     /\ Written = 1..PageCount
     /\ WrittenOnce
     /\ \A i \in 1..Len(Outline) :
          WrittenFor(i) = {n \in FirstPage(i)..LastPage(i) : n <= PageCount}

C1_Witness ==
  /\ last.status = 200
  /\ StrictlyIncreasing
  /\ StartPage(1) = 1
  /\ Len(Outline) >= 2
  /\ PageCount >= 2
  /\ \A i \in 1..Len(Outline) : WrittenFor(i) # {}

(***************************************************************************)
(* The lookup of the section of an outline entry of the latest call.       *)
(***************************************************************************)
\* the entries whose raw title the observed section lookup asked for
AskedEntries == {i \in 1..Len(Outline) : Outline[i][2] = query.title}

\* the directory the writer put entry i in
WrittenDir(i) == Join(last.pdf_dir, title_clean(Outline[i][2]))

\* the page numbers whose files are present in a directory
NumsIn(dir) == {n \in QueryPages : PageFileName(n) \in FilesIn(dir)}

\* the response lists exactly the files present in dir, by ascending page number
ListsExactly(dir) ==
  /\ FilesIn(dir) = {PageFileName(n) : n \in NumsIn(dir)}
  /\ Len(query.images) = Cardinality(NumsIn(dir))
  /\ \A n \in NumsIn(dir) :
       query.images[1 + Cardinality({m \in NumsIn(dir) : m < n})]
         = ImagesPrefix \o query.pdf_dir \o Slash
             \o dir[Len(dir)] \o Slash \o PageFileName(n)

\* the same for a section whose sanitized name is empty: its pages lie in the
\* document root and the URI has an empty section component
ListsExactlyRoot(dir) ==
  /\ FilesIn(dir) = {PageFileName(n) : n \in NumsIn(dir)}
  /\ Len(query.images) = Cardinality(NumsIn(dir))
  /\ \A n \in NumsIn(dir) :
       query.images[1 + Cardinality({m \in NumsIn(dir) : m < n})]
         = ImagesPrefix \o query.pdf_dir \o Slash \o Slash \o PageFileName(n)

Lists(dir) ==
  IF dir = last.pdf_dir THEN ListsExactlyRoot(dir) ELSE ListsExactly(dir)

C3_PageNotFoundIs404 ==
  (/\ query.op = "page"
   /\ Join(<<PDF_BASE_DIR>>, query.pdf_dir) \in fs.dirs
   /\ \A k \in DOMAIN fs.files : k[2] # PageFileName(query.page))
  => query.status = 404

(***************************************************************************)
(* C7: a document without outline is written as the one section general   *)
(* holding page_1.jpg .. page_P.jpg, and the outline returned is the       *)
(* single entry (1, general, 1).                                           *)
(***************************************************************************)
C7_DefaultOutline ==
  (Processed /\ last.doc.toc = <<>>)
  => /\ last.status = 200
     /\ last.toc = <<<<1, <<"g","e","n","e","r","a","l">>, 1>>>>
     /\ fs.dirs = {<<PDF_BASE_DIR>>, Root, Append(Root, <<"g","e","n","e","r","a","l">>)}
     /\ DOMAIN fs.files =
          {<<Append(Root, <<"g","e","n","e","r","a","l">>), PageFileName(n)>> :
             n \in 1..PageCount}
     /\ \A n \in 1..PageCount :
          fs.files[<<Append(Root, <<"g","e","n","e","r","a","l">>), PageFileName(n)>>]
            = Image(last.doc, n)
     /\ Len(last.paths) = PageCount

C7_Witness ==
  /\ last.status = 200
  /\ last.doc.toc = <<>>
  /\ PageCount >= 2
  /\ Cardinality(DOMAIN fs.files) = PageCount

(***************************************************************************)
(* C8: an entry whose start page is beyond the last page gets no file and  *)
(* raises nothing, and no page index beyond P-1 is written or raises.      *)
(***************************************************************************)
C8_OutOfRangeSkipped ==
  Processed
  => /\ \A i \in 1..Len(Outline) :
          StartPage(i) > PageCount => WrittenFor(i) = {} /\ last.failEntry # i
     /\ \A k \in 1..Len(last.paths) : last.paths[k].num - 1 <= PageCount - 1
     /\ last.failKind = "IndexError" => last.failIdx < 0

C8_Witness ==
  /\ last.status = 200
  /\ \E i \in 1..Len(Outline) :
       /\ i < Len(Outline)
       /\ StartPage(i) > PageCount
       /\ StartPage(i + 1) > StartPage(i)

(***************************************************************************)
(* C10, as claimed: every file written is page_<n>.jpg with 1 <= n <= P    *)
(* and holds the image of page n, whatever the start pages are.            *)
(***************************************************************************)
C10_WritesOnlyOwnPages ==
  Processed
  => \A k \in 1..Len(last.paths) :
       /\ last.paths[k].num >= 1
       /\ last.paths[k].num <= PageCount
       /\ last.paths[k].name = PageFileName(last.paths[k].num)
       /\ last.paths[k].page = last.paths[k].num

(***************************************************************************)
(* C5, as claimed: after a completed process_pdf of a document whose       *)
(* outline is strictly increasing from page 1, the page lookup of every    *)
(* page n of 1..P answers with the section whose range contains n,         *)
(* whatever earlier calls left in the root.  (Stated for outlines whose    *)
(* titles sanitize to non-empty names.)                                    *)
(***************************************************************************)
C5_PageFoundInItsSection ==
  (/\ last.status = 200
   /\ StrictlyIncreasing
   /\ StartPage(1) = 1
   /\ \A i \in 1..Len(Outline) : title_clean(Outline[i][2]) # <<>>
   /\ query.op = "page"
   /\ query.page \in 1..PageCount)
  => /\ query.status = 200
     /\ \E i \in 1..Len(Outline) :
          /\ query.page \in FirstPage(i)..LastPage(i)
          /\ query.section = title_clean(Outline[i][2])
          /\ query.uri = ImagesPrefix \o query.pdf_dir \o Slash
                           \o title_clean(Outline[i][2]) \o Slash
                           \o PageFileName(query.page)

(***************************************************************************)
(* C6: processing the same upload again changes nothing in the store and   *)
(* answers as the first run did; existing directories raise no error.      *)
(***************************************************************************)
SameUploadAgain ==
  /\ calls' = calls + 1
  /\ Processed
  /\ last'.filename = last.filename
  /\ last'.doc = last.doc

C6_ReprocessingIdempotent ==
  [][SameUploadAgain
       => /\ fs' = fs
          /\ tmp' = tmp
          /\ last'.status = last.status
          /\ last'.toc = last.toc
          /\ last'.paths = last.paths
          /\ last'.failKind # "FileExistsError"]_vars

C6_Witness ==
  /\ last.rerun
  /\ last.status = 200
  /\ Len(last.paths) >= 2
  /\ Len(Outline) >= 2

(***************************************************************************)
(* C4, as claimed: of two concurrent process_pdf calls for the same file   *)
(* name neither fails, and when both are done every page file of the root  *)
(* holds an image one of the two calls wrote to that path.                 *)
(***************************************************************************)
C4_ConcurrentUploadsBothSucceed ==
  /\ \A p \in DOMAIN proc : proc[p].pc = "done" => proc[p].status = 200
  /\ (\A p \in DOMAIN proc : proc[p].pc = "done")
       => \A k \in DOMAIN fs.files :
            \E p \in DOMAIN proc : \E h \in 1..Len(proc[p].paths) :
               /\ proc[p].paths[h].dir = k[1]
               /\ proc[p].paths[h].name = k[2]
               /\ fs.files[k] = Image(proc[p].read, proc[p].paths[h].page)

(***************************************************************************)
(* C9: cleaning a cleaned title changes nothing, and the lookup cleans as  *)
(* the writer does.                                                        *)
(***************************************************************************)
C9_SanitizeIdempotent ==
  /\ san.stage \in {"twice", "done"} => san.twice = san.once
  /\ san.stage = "done" => san.lookup = <<san.once, san.once>>

C9_Witness ==
  /\ san.stage = "done"
  /\ san.once # <<>>
  /\ FilterTitle(san.title) # san.title
  /\ FilterTitle(san.title) # san.once

====
